---------------------------- MODULE Spec2Model ----------------------------
(***************************************************************************)
(* Model of keystore.KeypairFromAddress (src/keystore/keystore.go).        *)
(*                                                                         *)
(* Each retrieval request is one call of KeypairFromAddress.  Its locals   *)
(* (pswd, hshPwd, salt, err, kp, key) are per-request variables, byte      *)
(* slices are Go slices (backing array, len, cap) over a heap `mem`, and   *)
(* the functions the call uses from the rest of the repository             *)
(* (GetPassword, hash.HashPasswordIteratively, ReadFromFileAndDecrypt,     *)
(* insecureKeypairFromAddress) are modelled from the specification.        *)
(***************************************************************************)
EXTENDS Integers, Sequences, FiniteSets, TLC

(***************************************************************************)
(* Bounds of the model.                                                    *)
(***************************************************************************)
NumReq == 2        \* number of retrieval requests (calls) in a behaviour
MaxPwLen == 1      \* longest password the password source supplies

Req == 1..NumReq

(***************************************************************************)
(* Key derivation parameters (hash package): fixed output lengths.         *)
(***************************************************************************)
HashLen == 2
SaltLen == 1

PwBytes == {1, 2}
SaltBytes == {1, 2}

RECURSIVE SeqsUpTo(_, _)
SeqsUpTo(S, n) ==
    IF n = 0 THEN {<<>>}
    ELSE LET shorter == SeqsUpTo(S, n - 1)
         IN  shorter \cup {Append(s, b) : s \in {t \in shorter : Len(t) = n - 1}, b \in S}

Passwords == SeqsUpTo(PwBytes, MaxPwLen)
Salts == {s \in SeqsUpTo(SaltBytes, SaltLen) : Len(s) = SaltLen}

(***************************************************************************)
(* Go values: nil, errors, slices.                                         *)
(***************************************************************************)
NoErr == "nil"
ErrNotFound == "key file not found"
ErrDerivation == "DerivationError"
ErrIntegrity == "IntegrityError"
ErrKeyType == "UnsupportedKeyType"
ErrRead == "ReadError"

BufNames == {"pswd", "hshPwd", "salt", "grown"}
ArrayIds == Req \X BufNames

\* A nil slice: no backing array, len 0, cap 0.
NilArr == <<0, "nil">>
NilSlice == [arr |-> NilArr, len |-> 0, cap |-> 0]

MkSlice(id, n, c) == [arr |-> id, len |-> n, cap |-> c]

Zeros(n) == [i \in 1..n |-> 0]

\* The bytes a slice shows: the first len bytes of its backing array.
Contents(m, s) == IF s.arr = NilArr THEN <<>> ELSE SubSeq(m[s.arr], 1, s.len)

AllZero(bytes) == \A i \in 1..Len(bytes) : bytes[i] = 0


(***************************************************************************)
(* The zeroing loops: for i := 0; i < len(b); i++ { b[i] = 0 }.            *)
(* Only the first len(b) bytes of the backing array are written.           *)
(***************************************************************************)
\* Variant: the loop stops one byte short (i < len(b)-1).
ZeroBytesSkipsLast(m, s) ==
    IF s.arr = NilArr THEN m
    ELSE [m EXCEPT ![s.arr] = [i \in 1..Len(@) |-> IF i < s.len THEN 0 ELSE @[i]]]

ZeroBytes(m, s) ==
    IF s.arr = NilArr THEN m
    ELSE [m EXCEPT ![s.arr] = [i \in 1..Len(@) |-> IF i <= s.len THEN 0 ELSE @[i]]]

(***************************************************************************)
(* Go's append(dst, src...): in place when the capacity suffices,          *)
(* otherwise a new backing array `fresh` receives a copy of dst followed   *)
(* by src and the old array is left as it was.                             *)
(* The result is <<new slice, new heap>>.                                  *)
(***************************************************************************)
AppendFits(s, n) == s.arr # NilArr /\ s.len + n <= s.cap

\* Variant: a growing append goes to one array shared by all requests.
AppendSliceShared(m, s, src, fresh) ==
    LET n == Len(src)
        shared == <<1, "grown">>
    IN  IF n = 0 THEN <<s, m>>
        ELSE IF AppendFits(s, n)
        THEN <<MkSlice(s.arr, s.len + n, s.cap),
               [m EXCEPT ![s.arr] =
                    [i \in 1..Len(@) |->
                        IF i > s.len /\ i <= s.len + n THEN src[i - s.len] ELSE @[i]]]>>
        ELSE <<MkSlice(shared, s.len + n, s.len + n),
               [m EXCEPT ![shared] = Contents(m, s) \o src]>>

\* Variant: a growing append does not copy the old bytes over.
AppendSliceLosesOld(m, s, src, fresh) ==
    LET n == Len(src)
    IN  IF n = 0 THEN <<s, m>>
        ELSE IF AppendFits(s, n)
        THEN <<MkSlice(s.arr, s.len + n, s.cap),
               [m EXCEPT ![s.arr] =
                    [i \in 1..Len(@) |->
                        IF i > s.len /\ i <= s.len + n THEN src[i - s.len] ELSE @[i]]]>>
        ELSE <<MkSlice(fresh, s.len + n, s.len + n),
               [m EXCEPT ![fresh] = Zeros(s.len) \o src]>>

AppendSlice(m, s, src, fresh) ==
    LET n == Len(src)
    IN  IF n = 0 THEN <<s, m>>
        ELSE IF AppendFits(s, n)
        THEN <<MkSlice(s.arr, s.len + n, s.cap),
               [m EXCEPT ![s.arr] =
                    [i \in 1..Len(@) |->
                        IF i > s.len /\ i <= s.len + n THEN src[i - s.len] ELSE @[i]]]>>
        ELSE <<MkSlice(fresh, s.len + n, s.len + n),
               [m EXCEPT ![fresh] = Contents(m, s) \o src]>>

(***************************************************************************)
(* var keyMapping = map[string]string{...}; a lookup of a missing key      *)
(* yields the zero value "".                                               *)
(***************************************************************************)
ChainTypes == {"ethereum", "substrate", "cosmos"}
KeyTypes == {"secp256k1", "sr25519"}

\* Variant: the two entries of the mapping exchanged.
keyMappingSwapped == [c \in {"ethereum", "substrate"} |->
                        IF c = "ethereum" THEN "sr25519" ELSE "secp256k1"]

keyMapping == [c \in {"ethereum", "substrate"} |->
                 IF c = "ethereum" THEN "secp256k1" ELSE "sr25519"]

KeyTypeOf(chainType) ==
    IF chainType \in DOMAIN keyMapping THEN keyMapping[chainType] ELSE ""

(***************************************************************************)
(* The file system.  A keystore directory holds one record per stored      *)
(* address; "notadir" is a path that names a regular file, so that         *)
(* os.Stat of anything below it fails with ENOTDIR.                        *)
(***************************************************************************)
Addrs == {"0xABC", "0xDEF"}
Dirs == {"keys", "notadir"}
NoFile == {}

\* A record written at encryption time: the key type tag, the address, and
\* (standing for the ciphertext) the password and salt it was encrypted under.
Records == [tag : KeyTypes, addr : Addrs, pw : Passwords \ {<<>>}, salt : Salts]

\* path = fmt.Sprintf("%s/%s.key", path, addr)
StoredPassword == <<1>>
StoredSalt == [i \in 1..SaltLen |-> 1]

KeyPath(dir, addr) == <<dir, addr>>

Stat(fs, path) ==
    IF path[1] = "notadir" THEN "ENOTDIR"
    ELSE IF fs[path[2]] = NoFile THEN "ENOENT"
    ELSE NoErr

IsNotExist(e) == e = "ENOENT"

\* The guard of the early return: os.IsNotExist(err) of os.Stat(path).
KeyFileMissing(fs, path) == IsNotExist(Stat(fs, path))


(***************************************************************************)
(* Key pairs and enclaves (crypto.Keypair, *memguard.Enclave).             *)
(***************************************************************************)
NilKp == [type |-> "", addr |-> "", origin |-> "nil"]
NilEnclave == [sealed |-> NilKp]

MkKeypair(t, a, o) == [type |-> t, addr |-> a, origin |-> o]
Enclave(k) == [sealed |-> k]

(***************************************************************************)
(* hash.HashPasswordIteratively: an iterated hash of password and salt.    *)
(* Round is a bijection on 0..250, so the derived key determines the       *)
(* (password, salt) pair it was derived from; every byte is non-zero.      *)
(***************************************************************************)
Rounds == 3

RECURSIVE Code(_)
Code(bytes) ==
    IF bytes = <<>> THEN 0
    ELSE Code(SubSeq(bytes, 1, Len(bytes) - 1)) * 2 + bytes[Len(bytes)]

Round(x) == (x * 3 + 1) % 251

RECURSIVE Iterate(_, _)
Iterate(x, n) == IF n = 0 THEN x ELSE Iterate(Round(x), n - 1)

KDF(pw, s) ==
    LET seed == Code(pw) * (2 * Code([i \in 1..SaltLen |-> 2]) + 1) + Code(s)
    IN  [i \in 1..HashLen |-> 1 + Iterate((seed + i - 1) % 251, Rounds)]

\* The key material a record was encrypted under: derived key, then salt.
RecordKey(rec) == KDF(rec.pw, rec.salt) \o rec.salt


(***************************************************************************)
(* The functions KeypairFromAddress calls.  Each yields the set of results *)
(* the call can have.                                                      *)
(***************************************************************************)

\* GetPassword(prompt): the password the source supplies, possibly empty.
GetPassword == Passwords

\* hash.HashPasswordIteratively(pswd) -> (hash, salt, err): a fresh random
\* salt per call; an empty password is a derivation error, with or without
\* buffers handed back.  extra is the spare capacity of the hash buffer.
HashPasswordIteratively(pw) ==
    IF pw = <<>>
    THEN {[hash |-> <<>>, salt |-> <<>>, extra |-> 0, err |-> ErrDerivation]}
         \cup {[hash |-> KDF(pw, s), salt |-> s, extra |-> 0, err |-> ErrDerivation] :
                 s \in Salts}
    ELSE {[hash |-> KDF(pw, s), salt |-> s, extra |-> x, err |-> NoErr] :
            s \in Salts, x \in {0, SaltLen}}

\* What a failed decryption hands back as keypair: none, or a keypair object
\* that was constructed before the failure showed.
FailedKeypairs(rec) == {NilKp, MkKeypair(rec.tag, rec.addr, "partial")}

\* ReadFromFileAndDecrypt(path, password, keytype) -> (kp, key, err).
ReadFromFileAndDecrypt(fs, path, password, keytype) ==
    LET Failed(e, ks) == {[kp |-> k, key |-> NilEnclave, err |-> e] : k \in ks}
    IN  IF path[1] = "notadir" \/ fs[path[2]] = NoFile THEN Failed(ErrRead, {NilKp})
        ELSE LET rec == CHOOSE x \in fs[path[2]] : TRUE
             IN  IF rec.tag # keytype THEN Failed(ErrKeyType, {NilKp})
                 ELSE IF password # RecordKey(rec)
                 THEN Failed(ErrIntegrity, FailedKeypairs(rec))
                 ELSE LET k == MkKeypair(rec.tag, rec.addr, "decrypted")
                      IN  {[kp |-> k, key |-> Enclave(k), err |-> NoErr]}

\* insecureKeypairFromAddress(path, chainType): the well-known test fixture.
insecureKeypairFromAddress(path, chainType) ==
    IF chainType \in DOMAIN keyMapping
    THEN LET k == MkKeypair(keyMapping[chainType], "alice", "fixture")
         IN  [kp |-> k, key |-> Enclave(k), err |-> NoErr]
    ELSE [kp |-> NilKp, key |-> NilEnclave, err |-> ErrKeyType]

(***************************************************************************)
(* State.                                                                  *)
(***************************************************************************)
VARIABLES
    files,    \* the keystore directory: address -> the record stored (if any)
    mem,      \* the heap: backing array -> its bytes
    pc,       \* per request: the position in KeypairFromAddress
    args,     \* per request: addr, chainType, path, insecure
    pswd,     \* per request: local slice pswd
    hshPwd,   \* per request: local slice hshPwd
    salt,     \* per request: local slice salt
    hshOrig,  \* per request: the slice HashPasswordIteratively returned
    err,      \* per request: local err
    kp,       \* per request: local kp
    key,      \* per request: local key (the enclave)
    ret,      \* per request: the values returned to the caller
    rfad,     \* per request: arguments and result of ReadFromFileAndDecrypt
    calls,    \* per request: the functions called so far, in order
    given,    \* per request: the password GetPassword supplied
    deleted,  \* per request: the keypairs DeleteKeyPair was called on, in order
    retained, \* the keypairs the package still refers to outside any call
    derived   \* per request: hash and salt as HashPasswordIteratively returned them

vars == <<files, mem, pc, args, pswd, hshPwd, salt, hshOrig, err, kp, key, ret,
          rfad, calls, given, deleted, retained, derived>>

\* path = fmt.Sprintf("%s/%s.key", path, addr): the local path after line 51.
Path(r) == KeyPath(args[r].path, args[r].addr)

NoArgs == [addr |-> "", chainType |-> "", path |-> "", insecure |-> FALSE]
NoRet == [kp |-> NilKp, key |-> NilEnclave, err |-> NoErr]
NoRfad == [called |-> FALSE, path |-> <<"", "">>, password |-> <<>>, keytype |-> "",
           kp |-> NilKp, key |-> NilEnclave, err |-> NoErr]

\* One key, of either type, is stored for address 0xABC under the password
\* StoredPassword, with the salt StoredSalt drawn at encryption time;
\* 0xDEF was never stored.
Init ==
    /\ \E rec \in {x \in Records : /\ x.addr = "0xABC"
                                   /\ x.pw = StoredPassword
                                   /\ x.salt = StoredSalt} :
          files = [a \in Addrs |-> IF a = "0xABC" THEN {rec} ELSE NoFile]
    /\ mem = [id \in ArrayIds |-> <<>>]
    /\ pc = [r \in Req |-> "idle"]
    /\ args = [r \in Req |-> NoArgs]
    /\ pswd = [r \in Req |-> NilSlice]
    /\ hshPwd = [r \in Req |-> NilSlice]
    /\ salt = [r \in Req |-> NilSlice]
    /\ hshOrig = [r \in Req |-> NilSlice]
    /\ err = [r \in Req |-> NoErr]
    /\ kp = [r \in Req |-> NilKp]
    /\ key = [r \in Req |-> NilEnclave]
    /\ ret = [r \in Req |-> NoRet]
    /\ rfad = [r \in Req |-> NoRfad]
    /\ calls = [r \in Req |-> <<>>]
    /\ given = [r \in Req |-> <<>>]
    /\ deleted = [r \in Req |-> <<>>]
    /\ retained = {}
    /\ derived = [r \in Req |-> [hash |-> <<>>, salt |-> <<>>]]


(***************************************************************************)
(* KeypairFromAddress, statement by statement.                             *)
(***************************************************************************)
Result(k, e, x) == [kp |-> k, key |-> e, err |-> x]

\* Variant: the flag read inverted.
InsecureBranchInverted(a) == ~a.insecure

\* if insecure { ... }
InsecureBranch(a) == a.insecure

\* Variant: the derivation error is not looked at.
DerivationErrorIgnored(e) == FALSE

\* if err != nil { ... } after HashPasswordIteratively
DerivationFailed(e) == e # NoErr

\* if err != nil { ... } after ReadFromFileAndDecrypt
DecryptFailed(e) == e # NoErr

\* Variant: the failure path hands back kp and key as they are.
DecryptFailedResultPartial(k, e, x) == Result(k, e, x)

\* return nil, nil, err (decryption failure)
DecryptFailedResult(k, e, x) == Result(NilKp, NilEnclave, x)

\* return kp, key, nil
SuccessResult(k, e) == Result(k, e, NoErr)

\* The caller invokes KeypairFromAddress(addr, chainType, path, insecure):
\* if insecure { return insecureKeypairFromAddress(path, chainType) }
Call(r) ==
    /\ pc[r] = "idle"
    /\ \E a \in Addrs, c \in ChainTypes, d \in Dirs, i \in BOOLEAN :
          LET in == [addr |-> a, chainType |-> c, path |-> d, insecure |-> i]
          IN  /\ args' = [args EXCEPT ![r] = in]
              /\ IF InsecureBranch(in)
                 THEN /\ ret' = [ret EXCEPT ![r] = insecureKeypairFromAddress(d, c)]
                      /\ calls' = [calls EXCEPT ![r] =
                                     Append(@, "insecureKeypairFromAddress")]
                      /\ pc' = [pc EXCEPT ![r] = "returned"]
                 ELSE /\ pc' = [pc EXCEPT ![r] = "stat"]
                      /\ UNCHANGED <<ret, calls>>
    /\ UNCHANGED <<derived, deleted, retained, given, files, mem, pswd, hshPwd, salt, hshOrig, err, kp, key, rfad>>

\* if _, err := os.Stat(path); os.IsNotExist(err) { return nil, nil, ... }
StatNotFound(r) ==
    /\ pc[r] = "stat"
    /\ KeyFileMissing(files, Path(r))
    /\ ret' = [ret EXCEPT ![r] = Result(NilKp, NilEnclave, ErrNotFound)]
    /\ calls' = [calls EXCEPT ![r] = Append(@, "Stat")]
    /\ pc' = [pc EXCEPT ![r] = "returned"]
    /\ UNCHANGED <<derived, deleted, retained, given, files, mem, args, pswd, hshPwd, salt, hshOrig, err, kp, key, rfad>>

StatPassed(r) ==
    /\ pc[r] = "stat"
    /\ ~KeyFileMissing(files, Path(r))
    /\ calls' = [calls EXCEPT ![r] = Append(@, "Stat")]
    /\ pc' = [pc EXCEPT ![r] = "getpw"]
    /\ UNCHANGED <<derived, deleted, retained, given, files, mem, args, pswd, hshPwd, salt, hshOrig, err, kp, key, ret,
                   rfad>>

\* var pswd []byte; if pswd == nil { pswd = GetPassword(...) }
AcquirePassword(r) ==
    /\ pc[r] = "getpw"
    /\ \E pw \in GetPassword :
          /\ given' = [given EXCEPT ![r] = pw]
          /\ IF pw = <<>>
             THEN /\ pswd' = [pswd EXCEPT ![r] = NilSlice]
                  /\ mem' = mem
             ELSE /\ pswd' = [pswd EXCEPT ![r] =
                                MkSlice(<<r, "pswd">>, Len(pw), Len(pw))]
                  /\ mem' = [mem EXCEPT ![<<r, "pswd">>] = pw]
    /\ calls' = [calls EXCEPT ![r] = Append(@, "GetPassword")]
    /\ pc' = [pc EXCEPT ![r] = "hash"]
    /\ UNCHANGED <<derived, deleted, retained, files, args, hshPwd, salt, hshOrig, err, kp, key,
                   ret, rfad>>

\* hshPwd, salt, err := hash.HashPasswordIteratively(pswd)
Derive(r) ==
    /\ pc[r] = "hash"
    /\ \E h \in HashPasswordIteratively(Contents(mem, pswd[r])) :
          LET hs == IF h.hash = <<>> THEN NilSlice
                    ELSE MkSlice(<<r, "hshPwd">>, Len(h.hash), Len(h.hash) + h.extra)
              ss == IF h.salt = <<>> THEN NilSlice
                    ELSE MkSlice(<<r, "salt">>, Len(h.salt), Len(h.salt))
          IN  /\ hshPwd' = [hshPwd EXCEPT ![r] = hs]
              /\ hshOrig' = [hshOrig EXCEPT ![r] = hs]
              /\ salt' = [salt EXCEPT ![r] = ss]
              /\ err' = [err EXCEPT ![r] = h.err]
              /\ derived' = [derived EXCEPT ![r] = [hash |-> h.hash, salt |-> h.salt]]
              /\ mem' = [mem EXCEPT ![<<r, "hshPwd">>] = h.hash \o Zeros(h.extra),
                                    ![<<r, "salt">>] = h.salt]
    /\ calls' = [calls EXCEPT ![r] = Append(@, "HashPasswordIteratively")]
    /\ pc' = [pc EXCEPT ![r] = "zeropw"]
    /\ UNCHANGED <<deleted, retained, given, files, args, pswd, kp, key, ret, rfad>>

\* for i := 0; i < len(pswd); i++ { pswd[i] = 0 }
ZeroPassword(r) ==
    /\ pc[r] = "zeropw"
    /\ mem' = ZeroBytes(mem, pswd[r])
    /\ pc' = [pc EXCEPT ![r] = "checkerr"]
    /\ UNCHANGED <<derived, deleted, retained, given, files, args, pswd, hshPwd, salt, hshOrig, err, kp, key, ret, rfad,
                   calls>>

\* if err != nil { zero hshPwd; zero salt; return nil, nil, err }
DeriveFailed(r) ==
    /\ pc[r] = "checkerr"
    /\ DerivationFailed(err[r])
    /\ mem' = ZeroBytes(ZeroBytes(mem, hshPwd[r]), salt[r])
    /\ ret' = [ret EXCEPT ![r] = Result(NilKp, NilEnclave, err[r])]
    /\ pc' = [pc EXCEPT ![r] = "returned"]
    /\ UNCHANGED <<derived, deleted, retained, given, files, args, pswd, hshPwd, salt, hshOrig, err, kp, key, rfad, calls>>

\* hshPwd = append(hshPwd, salt...)
AppendSalt(r) ==
    /\ pc[r] = "checkerr"
    /\ ~DerivationFailed(err[r])
    /\ LET res == AppendSlice(mem, hshPwd[r], Contents(mem, salt[r]), <<r, "grown">>)
       IN  /\ hshPwd' = [hshPwd EXCEPT ![r] = res[1]]
           /\ mem' = res[2]
    /\ pc' = [pc EXCEPT ![r] = "zerosalt"]
    /\ UNCHANGED <<derived, deleted, retained, given, files, args, pswd, salt, hshOrig, err, kp, key, ret, rfad, calls>>

\* Variant: the salt is left as it is after the append.
ZeroSaltSkipped(r) ==
    /\ pc[r] = "zerosalt"
    /\ pc' = [pc EXCEPT ![r] = "decrypt"]
    /\ UNCHANGED <<derived, deleted, retained, given, files, mem, args, pswd, hshPwd, salt, hshOrig, err, kp, key,
                   ret, rfad, calls>>

\* for i := 0; i < len(salt); i++ { salt[i] = 0 }
ZeroSalt(r) ==
    /\ pc[r] = "zerosalt"
    /\ mem' = ZeroBytes(mem, salt[r])
    /\ pc' = [pc EXCEPT ![r] = "decrypt"]
    /\ UNCHANGED <<derived, deleted, retained, given, files, args, pswd, hshPwd, salt, hshOrig, err, kp, key, ret, rfad,
                   calls>>

\* kp, key, err := ReadFromFileAndDecrypt(path, hshPwd, keyMapping[chainType])
Decrypt(r) ==
    /\ pc[r] = "decrypt"
    /\ LET password == Contents(mem, hshPwd[r])
           keytype == KeyTypeOf(args[r].chainType)
       IN  \E res \in ReadFromFileAndDecrypt(files, Path(r), password, keytype) :
              /\ kp' = [kp EXCEPT ![r] = res.kp]
              /\ key' = [key EXCEPT ![r] = res.key]
              /\ err' = [err EXCEPT ![r] = res.err]
              /\ rfad' = [rfad EXCEPT ![r] =
                            [called |-> TRUE, path |-> Path(r),
                             password |-> password, keytype |-> keytype,
                             kp |-> res.kp, key |-> res.key, err |-> res.err]]
    /\ calls' = [calls EXCEPT ![r] = Append(@, "ReadFromFileAndDecrypt")]
    /\ pc' = [pc EXCEPT ![r] = "zerohsh"]
    /\ UNCHANGED <<derived, deleted, retained, given, files, mem, args, pswd, hshPwd, salt, hshOrig, ret>>

\* for i := 0; i < len(hshPwd); i++ { hshPwd[i] = 0 }
ZeroHash(r) ==
    /\ pc[r] = "zerohsh"
    /\ mem' = ZeroBytes(mem, hshPwd[r])
    /\ pc' = [pc EXCEPT ![r] = "checkdec"]
    /\ UNCHANGED <<derived, deleted, retained, given, files, args, pswd, hshPwd, salt, hshOrig, err, kp, key, ret, rfad,
                   calls>>

\* if err != nil { kp.DeleteKeyPair() ... } with kp a nil interface value:
\* the method call is a nil dereference and the call panics.
DecryptFailedPanic(r) ==
    /\ pc[r] = "checkdec"
    /\ DecryptFailed(err[r])
    /\ kp[r] = NilKp
    /\ pc' = [pc EXCEPT ![r] = "panicked"]
    /\ UNCHANGED <<derived, deleted, retained, given, files, mem, args, pswd, hshPwd, salt, hshOrig, err, kp, key, ret,
                   rfad, calls>>

\* if err != nil { kp.DeleteKeyPair(); kp = nil; return nil, nil, err }
DecryptFailedReturn(r) ==
    /\ pc[r] = "checkdec"
    /\ DecryptFailed(err[r])
    /\ kp[r] # NilKp
    /\ calls' = [calls EXCEPT ![r] = Append(@, "DeleteKeyPair")]
    /\ deleted' = [deleted EXCEPT ![r] = Append(@, kp[r])]
    /\ kp' = [kp EXCEPT ![r] = NilKp]
    /\ ret' = [ret EXCEPT ![r] = DecryptFailedResult(kp[r], key[r], err[r])]
    /\ pc' = [pc EXCEPT ![r] = "returned"]
    /\ UNCHANGED <<derived, retained, given, files, mem, args, pswd, hshPwd, salt, hshOrig, err, key, rfad>>

\* Variant: the keypair is destroyed on the way out (a deferred
\* kp.DeleteKeyPair()).
ReturnSuccessDestroyed(r) ==
    /\ pc[r] = "checkdec"
    /\ ~DecryptFailed(err[r])
    /\ calls' = [calls EXCEPT ![r] = Append(@, "DeleteKeyPair")]
    /\ deleted' = [deleted EXCEPT ![r] = Append(@, kp[r])]
    /\ ret' = [ret EXCEPT ![r] = SuccessResult(kp[r], key[r])]
    /\ pc' = [pc EXCEPT ![r] = "returned"]
    /\ UNCHANGED <<derived, retained, given, files, mem, args, pswd, hshPwd, salt, hshOrig, err,
                   kp, key, rfad>>

\* return kp, key, nil
ReturnSuccess(r) ==
    /\ pc[r] = "checkdec"
    /\ ~DecryptFailed(err[r])
    /\ ret' = [ret EXCEPT ![r] = SuccessResult(kp[r], key[r])]
    /\ pc' = [pc EXCEPT ![r] = "returned"]
    /\ UNCHANGED <<derived, deleted, retained, given, files, mem, args, pswd, hshPwd, salt, hshOrig, err, kp, key, rfad,
                   calls>>

Next ==
    \E r \in Req :
        \/ Call(r)
        \/ StatNotFound(r)
        \/ StatPassed(r)
        \/ AcquirePassword(r)
        \/ Derive(r)
        \/ ZeroPassword(r)
        \/ DeriveFailed(r)
        \/ AppendSalt(r)
        \/ ZeroSalt(r)
        \/ Decrypt(r)
        \/ ZeroHash(r)
        \/ DecryptFailedPanic(r)
        \/ DecryptFailedReturn(r)
        \/ ReturnSuccess(r)

Spec == Init /\ [][Next]_vars


(***************************************************************************)
(* Vocabulary of the properties.                                           *)
(***************************************************************************)
Called(r, f) == \E i \in DOMAIN calls[r] : calls[r][i] = f

Production(r) == pc[r] # "idle" /\ ~args[r].insecure

Returned(r) == pc[r] = "returned"
Succeeded(r) == Returned(r) /\ ret[r].err = NoErr
Ended(r) == pc[r] \in {"returned", "panicked"}

\* A key file exists at <path>/<addr>.key.
KeyFileExists(r) == args[r].path = "keys" /\ files[args[r].addr] # NoFile

\* The record stored at <path>/<addr>.key, when KeyFileExists(r).
RecordOf(r) == CHOOSE x \in files[args[r].addr] : TRUE

\* The request is past the os.Stat check.
PastStat(r) == Production(r) /\ pc[r] # "stat"

\* The request is past the zeroing loop that follows key derivation.
PastZeroPassword(r) ==
    Production(r) /\ pc[r] \notin {"stat", "getpw", "hash", "zeropw"}

\* C1: in the production path, when no key file exists at <path>/<addr>.key
\* the call returns the not-found error with nil keypair and nil enclave,
\* and GetPassword, HashPasswordIteratively and ReadFromFileAndDecrypt are
\* not called.
C1_NotFoundBeforePassword ==
    \A r \in Req :
        (PastStat(r) /\ ~KeyFileExists(r)) =>
            /\ Returned(r)
            /\ ret[r] = Result(NilKp, NilEnclave, ErrNotFound)
            /\ ~Called(r, "GetPassword")
            /\ ~Called(r, "HashPasswordIteratively")
            /\ ~Called(r, "ReadFromFileAndDecrypt")

\* C2: once ReadFromFileAndDecrypt has reported a failure and the failure
\* branch was taken, the call has returned that error with nil keypair and
\* nil enclave, whatever keypair the failed decryption yielded.
C2_DecryptFailureReturned ==
    \A r \in Req :
        (rfad[r].called /\ rfad[r].err # NoErr /\ pc[r] \notin {"zerohsh", "checkdec"}) =>
            /\ Returned(r)
            /\ ret[r] = Result(NilKp, NilEnclave, rfad[r].err)

\* C3: from the step that follows HashPasswordIteratively on (so before
\* ReadFromFileAndDecrypt is called, and at every exit), every byte of the
\* buffer GetPassword returned is zero.
C3_PasswordZeroed ==
    \A r \in Req :
        (PastZeroPassword(r) /\ Called(r, "GetPassword")) =>
            /\ AllZero(Contents(mem, pswd[r]))
            /\ AllZero(mem[<<r, "pswd">>])

C3_Witness ==
    \E r \in Req :
        /\ Succeeded(r)
        /\ pswd[r].len > 0
        /\ Len(given[r]) = pswd[r].len
        /\ AllZero(mem[pswd[r].arr])

\* C4: at every return of a retrieval that reached key derivation, both
\* the buffer HashPasswordIteratively returned and the buffer the append
\* of the salt produced show only zeros.
C4_DerivedKeyZeroed ==
    \A r \in Req :
        (Returned(r) /\ Called(r, "HashPasswordIteratively")) =>
            /\ AllZero(Contents(mem, hshOrig[r]))
            /\ AllZero(Contents(mem, hshPwd[r]))

\* C5: when the password source supplies an empty password, the retrieval
\* ends in failure with an error and ReadFromFileAndDecrypt is not called.
C5_EmptyPasswordRejected ==
    \A r \in Req :
        (Production(r) /\ Called(r, "GetPassword") /\ given[r] = <<>>) =>
            /\ ~rfad[r].called
            /\ ~Called(r, "ReadFromFileAndDecrypt")
            /\ pc[r] # "panicked"
            /\ Returned(r) => (ret[r].err # NoErr /\ ret[r].kp = NilKp)
            /\ PastZeroPassword(r) => (err[r] # NoErr /\ pc[r] \in {"checkerr", "returned"})

C5_Witness ==
    \E r \in Req :
        /\ Production(r)
        /\ Called(r, "GetPassword")
        /\ given[r] = <<>>
        /\ Returned(r)
        /\ ret[r] = Result(NilKp, NilEnclave, ErrDerivation)

\* C6: with insecure set the call is exactly insecureKeypairFromAddress and
\* nothing else is called; with insecure unset insecureKeypairFromAddress is
\* never called and no fixture is returned, on any path.
C6_PathsDisjoint ==
    \A r \in Req :
        pc[r] # "idle" =>
            IF args[r].insecure
            THEN /\ Returned(r)
                 /\ calls[r] = <<"insecureKeypairFromAddress">>
                 /\ ret[r] = insecureKeypairFromAddress(args[r].path, args[r].chainType)
                 /\ ~rfad[r].called
                 /\ pswd[r] = NilSlice /\ hshPwd[r] = NilSlice
            ELSE /\ ~Called(r, "insecureKeypairFromAddress")
                 /\ ret[r].kp.origin # "fixture"
                 /\ ret[r].key.sealed.origin # "fixture"

C6_Witness ==
    \E r, q \in Req :
        /\ Returned(r) /\ args[r].insecure /\ ret[r].kp.origin = "fixture"
        /\ Ended(q) /\ ~args[q].insecure /\ rfad[q].called /\ rfad[q].err # NoErr

\* C7: for a fixed record, two retrievals given the same password hand the
\* same key material to ReadFromFileAndDecrypt, and a retrieval given the
\* password of encryption time hands over the key material of encryption
\* time.
C7_SameKeyMaterial ==
    /\ \A r, q \in Req :
          (rfad[r].called /\ rfad[q].called /\ rfad[r].path = rfad[q].path
              /\ given[r] = given[q]) => rfad[r].password = rfad[q].password
    /\ \A r \in Req :
          (rfad[r].called /\ KeyFileExists(r) /\ given[r] = RecordOf(r).pw) =>
              rfad[r].password = RecordKey(RecordOf(r))

\* C8: a retrieval of a stored address, given the password it was stored
\* under (and the chain type of its key type), ends in success with a
\* keypair of that address; no successful retrieval returns a keypair of
\* another address.
C8_CorrectPasswordSucceeds ==
    \A r \in Req :
        /\ (/\ Production(r) /\ Ended(r) /\ KeyFileExists(r)
            /\ given[r] = RecordOf(r).pw
            /\ KeyTypeOf(args[r].chainType) = RecordOf(r).tag)
               => (Succeeded(r) /\ ret[r].kp.addr = args[r].addr)
        /\ (Production(r) /\ Succeeded(r)) => ret[r].kp.addr = args[r].addr

C10_NoPartialResult ==
    \A r \in Req :
        (Production(r) /\ Returned(r)) =>
            \/ /\ ret[r].err = NoErr
               /\ rfad[r].called /\ rfad[r].err = NoErr
               /\ ret[r].kp = rfad[r].kp /\ ret[r].key = rfad[r].key
               /\ ret[r].kp # NilKp /\ ret[r].key # NilEnclave
            \/ /\ ret[r].err # NoErr
               /\ ret[r].kp = NilKp /\ ret[r].key = NilEnclave

C10_Witness ==
    \E r, q \in Req :
        /\ Production(r) /\ Returned(r)
        /\ rfad[r].called /\ rfad[r].kp.origin = "partial"
        /\ ret[r] = Result(NilKp, NilEnclave, ErrIntegrity)
        /\ Production(q) /\ Succeeded(q) /\ ret[q].kp.origin = "decrypted"


\* The arrays of a request, and whether a slice lies in them.
OwnArrays(r) == {NilArr} \cup ({r} \X BufNames)

\* Everything request q holds: its locals, its results and its arrays.
StateOf(q) ==
    <<pc[q], args[q], pswd[q], hshPwd[q], salt[q], hshOrig[q], err[q], kp[q], key[q],
      ret[q], rfad[q], calls[q], given[q], deleted[q], derived[q],
      [n \in BufNames |-> mem[<<q, n>>]]>>

\* What a request hands to decryption and gets back depends on its own
\* password, arguments and salt only.
OutcomeIsOwn(r) ==
    rfad[r].called =>
        /\ \E s \in Salts : rfad[r].password = KDF(given[r], s) \o s
        /\ rfad[r].path = Path(r)
        /\ rfad[r].keytype = KeyTypeOf(args[r].chainType)
        /\ [kp |-> rfad[r].kp, key |-> rfad[r].key, err |-> rfad[r].err]
              \in ReadFromFileAndDecrypt(files, Path(r), rfad[r].password, rfad[r].keytype)

\* C11: under any interleaving of the requests, the slices of a request
\* lie in its own arrays, a step of one request changes neither the
\* locals nor the arrays of another (nor the files), and the outcome of a
\* request is that of its own password, arguments and salt.
C11_BuffersPrivate ==
    /\ [](\A r \in Req :
            /\ pswd[r].arr \in OwnArrays(r)
            /\ hshPwd[r].arr \in OwnArrays(r)
            /\ salt[r].arr \in OwnArrays(r)
            /\ hshOrig[r].arr \in OwnArrays(r)
            /\ OutcomeIsOwn(r))
    /\ [][\A r \in Req :
            pc'[r] # pc[r] =>
                /\ files' = files
                /\ \A q \in Req \ {r} : StateOf(q)' = StateOf(q)]_vars

C11_Witness ==
    \E r, q \in Req :
        /\ r # q
        /\ pc[r] = "checkdec" /\ pswd[r].len > 0 /\ AllZero(mem[<<r, "pswd">>])
        /\ hshPwd[r].arr = <<r, "grown">>
        /\ pc[q] = "zerosalt" /\ pswd[q].len > 0
        /\ hshPwd[q].arr = <<q, "grown">>
        /\ ~AllZero(mem[<<q, "grown">>])


\* The stages of a production retrieval, by the calls that enter them.
StageOrder == <<"Stat", "GetPassword", "HashPasswordIteratively", "ReadFromFileAndDecrypt">>

IsPrefix(a, b) == Len(a) <= Len(b) /\ \A i \in 1..Len(a) : a[i] = b[i]

\* The calls of a request without the DeleteKeyPair of its failure path.
StageCalls(r) == SelectSeq(calls[r], LAMBDA f : f # "DeleteKeyPair")

\* C12: a production retrieval enters its stages in the order file check,
\* password, derivation, decryption, each at most once and none skipped;
\* derivation follows a password, decryption follows a derivation that
\* succeeded, and a success has passed all four.
C12_StageOrder ==
    /\ [](\A r \in Req :
            Production(r) =>
                /\ IsPrefix(StageCalls(r), StageOrder)
                /\ pc[r] \in {"zerosalt", "decrypt"} => err[r] = NoErr
                /\ pc[r] \in {"zerosalt", "decrypt"} => Len(calls[r]) = 3
                /\ Succeeded(r) => calls[r] = StageOrder)
    /\ [][\A r \in Req :
            (rfad'[r].called /\ ~rfad[r].called) =>
                /\ pc[r] = "decrypt"
                /\ err[r] = NoErr
                /\ calls[r] = SubSeq(StageOrder, 1, 3)
                /\ calls'[r] = StageOrder]_vars

C12_Witness ==
    \E r \in Req :
        /\ Production(r) /\ Succeeded(r)
        /\ calls[r] = StageOrder
        /\ given[r] = StoredPassword


\* Some statement of request r can be executed.
RequestStep(r) ==
    \/ Call(r) \/ StatNotFound(r) \/ StatPassed(r) \/ AcquirePassword(r) \/ Derive(r)
    \/ ZeroPassword(r) \/ DeriveFailed(r) \/ AppendSalt(r) \/ ZeroSalt(r) \/ Decrypt(r)
    \/ ZeroHash(r) \/ DecryptFailedPanic(r) \/ DecryptFailedReturn(r) \/ ReturnSuccess(r)

\* C13: a request that was started and has no statement left to execute
\* has returned to its caller, either a keypair without error (Success) or
\* an error without keypair (Failed); no failure leaves it without result.
C13_EveryRequestReturns ==
    \A r \in Req :
        (pc[r] # "idle" /\ ~ENABLED RequestStep(r)) =>
            /\ Returned(r)
            /\ (ret[r].err = NoErr) # (ret[r].kp = NilKp)


\* The last n bytes of a byte sequence.
LastBytes(bytes, n) == SubSeq(bytes, Len(bytes) - n + 1, Len(bytes))

\* The request is at or past the call of ReadFromFileAndDecrypt.
AtOrPastDecrypt(r) ==
    Production(r) /\ pc[r] \in {"decrypt", "zerohsh", "checkdec", "returned", "panicked"}

\* C14: once key derivation has handed back a salt buffer, every byte of
\* it is zero from the call of ReadFromFileAndDecrypt on and at every
\* return (the derivation-error return included), and the bytes appended
\* to the derived key are the salt as it was before the zeroing.
C14_SaltZeroed ==
    \A r \in Req :
        (AtOrPastDecrypt(r) /\ Called(r, "HashPasswordIteratively")) =>
            /\ AllZero(Contents(mem, salt[r]))
            /\ AllZero(mem[<<r, "salt">>])
            /\ rfad[r].called => LastBytes(rfad[r].password, SaltLen) \in Salts
            /\ pc[r] = "decrypt" => LastBytes(Contents(mem, hshPwd[r]), SaltLen) \in Salts

C14_Witness ==
    \E r \in Req :
        /\ pc[r] = "decrypt"
        /\ salt[r].len = SaltLen
        /\ mem[<<r, "salt">>] = Zeros(SaltLen)
        /\ LastBytes(Contents(mem, hshPwd[r]), SaltLen) \in Salts


\* The chain type of the request has no entry in the mapping.
UnmappedChain(r) == args[r].chainType \notin {"ethereum", "substrate"}

\* C15: a production retrieval whose chain type has no entry in the
\* mapping is rejected: it returns an error and no keypair, and decryption
\* is never entered with an empty or guessed key type.
C15_UnmappedChainRejected ==
    \A r \in Req :
        (Production(r) /\ UnmappedChain(r)) =>
            /\ ~Succeeded(r)
            /\ ret[r].kp = NilKp /\ ret[r].key = NilEnclave
            /\ Ended(r) => (Returned(r) /\ ret[r].err # NoErr)
            /\ ~rfad[r].called


\* The keypairs in a sequence of DeleteKeyPair calls.
Range(f) == {f[i] : i \in DOMAIN f}

\* C16: a keypair the call returns was never handed to DeleteKeyPair by
\* that call and is not referred to by the package afterwards;
\* DeleteKeyPair is called at most once per request, and only on the
\* keypair of a failed ReadFromFileAndDecrypt.
C16_ReturnedKeypairUntouched ==
    \A r \in Req :
        /\ (Returned(r) /\ ret[r].kp # NilKp) =>
              /\ ret[r].kp \notin Range(deleted[r])
              /\ deleted[r] = <<>>
              /\ ~Called(r, "DeleteKeyPair")
              /\ ret[r].kp \notin retained
        /\ Len(deleted[r]) <= 1
        /\ Len(SelectSeq(calls[r], LAMBDA f : f = "DeleteKeyPair")) = Len(deleted[r])
        /\ deleted[r] # <<>> =>
              /\ rfad[r].called /\ rfad[r].err # NoErr
              /\ deleted[r] = <<rfad[r].kp>>
              /\ pc[r] = "returned" /\ ret[r].kp = NilKp

C16_Witness ==
    \E r, q \in Req :
        /\ Production(r) /\ Succeeded(r) /\ ret[r].kp.origin = "decrypted"
        /\ deleted[r] = <<>>
        /\ Returned(q) /\ Len(deleted[q]) = 1 /\ deleted[q][1].origin = "partial"


\* C17: the key material handed to ReadFromFileAndDecrypt is the hash
\* followed by the salt, both as the one HashPasswordIteratively call of
\* the request returned them: len(hash) + len(salt) bytes, none of them
\* zeroed before the call.
C17_KeyMaterialLayout ==
    \A r \in Req :
        /\ Len(SelectSeq(calls[r], LAMBDA f : f = "HashPasswordIteratively")) <= 1
        /\ pc[r] = "decrypt" =>
              Contents(mem, hshPwd[r]) = derived[r].hash \o derived[r].salt
        /\ rfad[r].called =>
              /\ rfad[r].password = derived[r].hash \o derived[r].salt
              /\ Len(rfad[r].password) = Len(derived[r].hash) + Len(derived[r].salt)
              /\ SubSeq(rfad[r].password, 1, Len(derived[r].hash)) = derived[r].hash
              /\ LastBytes(rfad[r].password, Len(derived[r].salt)) = derived[r].salt
              /\ Len(derived[r].hash) = HashLen /\ Len(derived[r].salt) = SaltLen
              /\ \A i \in 1..Len(rfad[r].password) : rfad[r].password[i] # 0

C17_Witness ==
    \E r, q \in Req :
        /\ pc[r] = "zerohsh" /\ rfad[r].called
        /\ hshPwd[r].arr = <<r, "hshPwd">>
        /\ rfad[r].password = derived[r].hash \o derived[r].salt
        /\ pc[q] = "zerohsh" /\ rfad[q].called
        /\ hshPwd[q].arr = <<q, "grown">>
        /\ rfad[q].password = derived[q].hash \o derived[q].salt

=============================================================================
